---------------------------- MODULE Spec2Model ----------------------------
(***************************************************************************)
(* A model of the playback / playlist controller of RePlay (src/main.py,   *)
(* class Player).  The program is single threaded: every Tk callback       *)
(* (widget handler, timer) runs to completion, so every handler is one     *)
(* action.  Handlers call each other, so each method is an operator from   *)
(* the Player's state (a record) to the Player's state, and an action      *)
(* applies the operator of the handler it models.                          *)
(***************************************************************************)
EXTENDS Integers, Sequences, FiniteSets, TLC

(***************************************************************************)
(* Bounds of the model.                                                    *)
(***************************************************************************)
\* Number of audio files that may ever appear in the tracks directory.
NumFiles == 2

\* The longest track, in whole seconds.
MaxDur == 3

Files == 1 .. NumFiles

\* The supported audio files there may be in the directory the user chooses.
ChosenFiles == { NumFiles + 1 + f : f \in Files }

\* The files there may be in directory d.
FilesOf(d) == IF d = "tracks" THEN Files ELSE ChosenFiles

(***************************************************************************)
(* Program constants.                                                      *)
(***************************************************************************)
\* restart(): "if self.track_progress > 2".
RestartThreshold == 2

\* Width of the progress bar in pixels: "396 / duration", "0 <= event.x <= 396".
BarWidth == 396

\* default_settings: "volume": 50.
DefaultVolume == 50

\* increase_volume(), decrease_volume(): "+= 10", "-= 10".
VolumeStep == 10

\* increase_volume(): "if self.volume >= 100"; the Scale: to=100.
MaxVolume == 100

\* Python's None where the code holds a track (dict.get) ...
NoTrack == 0

\* ... and where it holds an index (selected_index = None).
NoIndex == -2

\* Listbox.nearest() on an empty listbox.
NearestOfEmpty == -1

\* The duration TinyTag reads from file f: a function of the file.
Duration(f) == MaxDur - ((f - 1) % MaxDur)

VARIABLES
    tracks_directory, \* SETTINGS["directory"]: "tracks" or, once changed, "chosen"
    directory,        \* supported audio files now in SETTINGS["directory"]
    corrupt,          \* those of them whose content TinyTag cannot decode
    playlist,         \* Player.playlist: dict index -> track, as the sequence of its items
    now_playing,      \* Player.now_playing: dict index -> track, as the set of its items
    existing_tracks,  \* Player.existing_tracks: list of paths
    track_progress,   \* Player.track_progress (elapsed seconds)
    track_duration,   \* Player.track_duration
    is_playing,       \* Player.is_playing
    repeat,           \* Player._repeat
    selected_index,   \* Player.selected_index
    can_shuffle,      \* Player.can_shuffle
    can_reorder,      \* Player.can_reorder
    updater,          \* pending after() callbacks stored in self.updater
    repeater,         \* pending after() callbacks stored in self.repeater
    file_watcher,     \* whether the after() callback stored in self.file_watcher is pending
    mixer,            \* the playback device: "unloaded", "playing" or "paused"
    volume,           \* Player.volume
    is_muted,         \* Player.is_muted
    device_volume,    \* the volume last given to mixer.set_volume, in hundredths
    slider,           \* Player.volume_slider: its value, and whether its command is due
    settings_volume,  \* "volume" as last written to settings.json
    can_edit,         \* Player.can_edit
    volume_updater,   \* pending after() callbacks stored in self.volume_updater
    settings_raises,  \* what the next write of settings.json raises: "none", "KeyError" or "OSError"
    backup_volume,    \* "volume" in backup\settings.json
    last              \* history: the observed handler that ran last, its input, the state it found

vars == << tracks_directory, directory, corrupt, file_watcher, playlist, now_playing, existing_tracks, track_progress,
           track_duration, is_playing, repeat, selected_index, can_shuffle,
           can_reorder, updater, repeater, mixer, volume, is_muted, device_volume,
           slider, settings_volume, can_edit, volume_updater, settings_raises,
           backup_volume, last >>

\* The variables of playback and of the playlist ...
playback_vars == << tracks_directory, directory, corrupt, file_watcher, playlist, now_playing,
                    existing_tracks, track_progress, track_duration, is_playing,
                    repeat, selected_index, can_shuffle, can_reorder, updater,
                    repeater, mixer >>

\* ... and those of the volume, which no handler of the former touches.
volume_vars == << volume, is_muted, device_volume, slider, settings_volume,
                  can_edit, volume_updater, settings_raises, backup_volume >>

\* The state of the Player and of its collaborators as one record.
St ==
    [ tracks_directory |-> tracks_directory,
      directory       |-> directory,
      corrupt         |-> corrupt,
      file_watcher    |-> file_watcher,
      playlist        |-> playlist,
      now_playing     |-> now_playing,
      existing_tracks |-> existing_tracks,
      track_progress  |-> track_progress,
      track_duration  |-> track_duration,
      is_playing      |-> is_playing,
      repeat          |-> repeat,
      selected_index  |-> selected_index,
      can_shuffle     |-> can_shuffle,
      can_reorder     |-> can_reorder,
      updater         |-> updater,
      repeater        |-> repeater,
      mixer           |-> mixer ]

\* The step that leaves the Player in state s.
Becomes(s) ==
    /\ tracks_directory' = s.tracks_directory
    /\ directory' = s.directory
    /\ corrupt' = s.corrupt
    /\ file_watcher' = s.file_watcher
    /\ playlist' = s.playlist
    /\ now_playing' = s.now_playing
    /\ existing_tracks' = s.existing_tracks
    /\ track_progress' = s.track_progress
    /\ track_duration' = s.track_duration
    /\ is_playing' = s.is_playing
    /\ repeat' = s.repeat
    /\ selected_index' = s.selected_index
    /\ can_shuffle' = s.can_shuffle
    /\ can_reorder' = s.can_reorder
    /\ updater' = s.updater
    /\ repeater' = s.repeater
    /\ mixer' = s.mixer

\* The history variable after a handler that is not observed.
Unobserved == [ op |-> "-" ]

\* The handler op, given arg, runs from the current state and ends in state s.
\* Its run is recorded when op is one of the observed handlers W.
Step(W, op, arg, s) ==
    /\ Becomes(s)
    /\ last' = IF op \in W THEN [ op |-> op, arg |-> arg, pre |-> St ] ELSE Unobserved
    /\ UNCHANGED volume_vars

\* The volume, the mute flag and what goes with them as one record.
Vol ==
    [ volume          |-> volume,
      is_muted        |-> is_muted,
      device_volume   |-> device_volume,
      slider          |-> slider,
      settings_volume |-> settings_volume,
      can_edit        |-> can_edit,
      volume_updater  |-> volume_updater,
      settings_raises |-> settings_raises,
      backup_volume   |-> backup_volume ]

VolBecomes(v) ==
    /\ volume' = v.volume
    /\ is_muted' = v.is_muted
    /\ device_volume' = v.device_volume
    /\ slider' = v.slider
    /\ settings_volume' = v.settings_volume
    /\ can_edit' = v.can_edit
    /\ volume_updater' = v.volume_updater
    /\ settings_raises' = v.settings_raises
    /\ backup_volume' = v.backup_volume

\* A handler of the volume: as Step, the state being Vol.
VolStep(W, op, arg, v) ==
    /\ VolBecomes(v)
    /\ last' = IF op \in W THEN [ op |-> op, arg |-> arg, pre |-> Vol ] ELSE Unobserved
    /\ UNCHANGED playback_vars

\* The Player starts in state s.
Starts(s) ==
    /\ last = Unobserved
    /\ tracks_directory = s.tracks_directory
    /\ directory = s.directory
    /\ corrupt = s.corrupt
    /\ file_watcher = s.file_watcher
    /\ playlist = s.playlist
    /\ now_playing = s.now_playing
    /\ existing_tracks = s.existing_tracks
    /\ track_progress = s.track_progress
    /\ track_duration = s.track_duration
    /\ is_playing = s.is_playing
    /\ repeat = s.repeat
    /\ selected_index = s.selected_index
    /\ can_shuffle = s.can_shuffle
    /\ can_reorder = s.can_reorder
    /\ updater = s.updater
    /\ repeater = s.repeater
    /\ mixer = s.mixer

(***************************************************************************)
(* Python dicts and lists.  A dict is the sequence of its items in         *)
(* insertion order; an item of the playlist is [key, path], the track      *)
(* being identified by its path (its metadata is read from the file).      *)
(***************************************************************************)
Keys(d) == { d[i].key : i \in 1 .. Len(d) }

Paths(d) == { d[i].path : i \in 1 .. Len(d) }

\* d.get(k)
DictGet(d, k) ==
    IF k \in Keys(d)
    THEN (CHOOSE e \in { d[i] : i \in 1 .. Len(d) } : e.key = k).path
    ELSE NoTrack

\* d[k] = p: an existing key keeps its place, a new key is appended.
DictSet(d, k, p) ==
    IF k \in Keys(d)
    THEN [ i \in 1 .. Len(d) |-> IF d[i].key = k THEN [ key |-> k, path |-> p ] ELSE d[i] ]
    ELSE Append(d, [ key |-> k, path |-> p ])

\* list(d)[-1]
LastKey(d) == d[Len(d)].key

\* list.remove(x): drops the first occurrence.
ListRemove(l, x) ==
    LET first == CHOOSE i \in 1 .. Len(l) : l[i] = x /\ \A j \in 1 .. (i - 1) : l[j] # x
    IN  [ i \in 1 .. (Len(l) - 1) |-> IF i < first THEN l[i] ELSE l[i + 1] ]

Range(l) == { l[i] : i \in 1 .. Len(l) }

Max(S) == CHOOSE x \in S : \A y \in S : y <= x

\* The files of a set in the order the directory lists them (by name).
RECURSIVE Listing(_)
Listing(S) ==
    IF S = {} THEN << >>
    ELSE LET f == CHOOSE x \in S : \A y \in S : x <= y
         IN  << f >> \o Listing(S \ { f })

(***************************************************************************)
(* Tk timers: after() and after_cancel().  A handle is [n, live]: n        *)
(* callbacks scheduled through it are pending, and live says whether the   *)
(* identifier the attribute holds is one of them.                          *)
(***************************************************************************)
After(t) == [ n |-> t.n + 1, live |-> TRUE ]

\* An after_cancel() that would leave the callback pending.
AfterCancelIgnored(t) == t

AfterCancel(t) == IF t.live THEN [ n |-> t.n - 1, live |-> FALSE ] ELSE t

\* The oldest pending callback of the handle fires.
Fired(t) == [ n |-> t.n - 1, live |-> t.live /\ t.n > 1 ]

(***************************************************************************)
(* The playback device (pygame.mixer.music).                               *)
(***************************************************************************)
\* load(path) then play(): load raises when the file is gone.
MixerLoadPlay(s, path) ==
    IF path \in s.directory THEN [ s EXCEPT !.mixer = "playing" ] ELSE s

MixerPause(s) == IF s.mixer = "playing" THEN [ s EXCEPT !.mixer = "paused" ] ELSE s

MixerUnpause(s) == IF s.mixer = "paused" THEN [ s EXCEPT !.mixer = "playing" ] ELSE s

\* A device that ignores unload() and stop().
MixerKeepsPlaying(s) == s

\* unload() then stop()
MixerUnloadStop(s) == [ s EXCEPT !.mixer = "unloaded" ]

(***************************************************************************)
(* Player methods.                                                         *)
(***************************************************************************)
get_now_playing(s) == CHOOSE e \in s.now_playing : TRUE

set_to_default(s) ==
    [ s EXCEPT !.repeater = AfterCancel(@),
               !.track_progress = 0,
               !.track_duration = 0 ]

\* A reorder_now_playing that would keep the keys it finds.
KeysKept(d) == d

\* A re-render that would list the tracks last to first.
Reversed(d) == [ i \in 1 .. Len(d) |-> [ key |-> i - 1, path |-> d[Len(d) + 1 - i].path ] ]

\* The playlist re-keyed 0..n-1 in its order.
Reindexed(d) == [ i \in 1 .. Len(d) |-> [ key |-> i - 1, path |-> d[i].path ] ]

reorder_now_playing(s) ==
    LET d    == s.playlist
        hits == IF s.now_playing = {} THEN {}
                ELSE { i \in 1 .. Len(d) : d[i].path = get_now_playing(s).path }
        np   == IF hits = {} THEN s.now_playing
                ELSE { [ index |-> Max(hits) - 1, path |-> get_now_playing(s).path ] }
        r    == [ s EXCEPT !.playlist = Reindexed(d), !.now_playing = np ]
    IN  IF Len(d) = 0 /\ np # {}
        THEN MixerUnloadStop(set_to_default([ r EXCEPT !.now_playing = {} ]))
        ELSE r

RECURSIVE update_playing_track(_, _, _), update_track_progress(_), next(_, _), play(_)

\* An update_track_progress() that would not poll while the Player is paused.
update_track_progress_stopping(s) ==
    LET c == [ s EXCEPT !.repeater = AfterCancel(@) ]
    IN  IF c.is_playing
        THEN IF c.track_progress < c.track_duration
             THEN [ c EXCEPT !.track_progress = @ + 1, !.updater = After(@) ]
             ELSE next(c, TRUE)
        ELSE c

\* An update_track_progress() that would count past the duration.
update_track_progress_unbounded(s) ==
    LET c == [ s EXCEPT !.repeater = AfterCancel(@) ]
    IN  IF c.is_playing
        THEN IF c.track_progress <= c.track_duration
             THEN [ c EXCEPT !.track_progress = @ + 1, !.updater = After(@) ]
             ELSE next(c, TRUE)
        ELSE [ c EXCEPT !.repeater = After(@) ]

\* An update_track_progress() that would count while the Player is paused.
update_track_progress_unpaused(s) ==
    LET c == [ s EXCEPT !.repeater = AfterCancel(@) ]
    IN  IF c.track_progress < c.track_duration
        THEN [ c EXCEPT !.track_progress = @ + 1, !.updater = After(@) ]
        ELSE IF c.is_playing THEN next(c, TRUE)
        ELSE [ c EXCEPT !.repeater = After(@) ]

update_track_progress(s) ==
    LET c == [ s EXCEPT !.repeater = AfterCancel(@) ]
    IN  IF c.is_playing
        THEN IF c.track_progress < c.track_duration
             THEN [ c EXCEPT !.track_progress = @ + 1, !.updater = After(@) ]
             ELSE next(c, TRUE)
        ELSE [ c EXCEPT !.repeater = After(@) ]

\* An update_playing_track() that would not clear now_playing first.
update_playing_track_keeping(s, index, path) ==
    LET a == [ s EXCEPT !.updater = AfterCancel(@),
                        !.now_playing = { e \in @ : e.index # index }
                                            \cup { [ index |-> index, path |-> path ] },
                        !.track_duration = Duration(path),
                        !.track_progress = 0,
                        !.is_playing = TRUE ]
        b == reorder_now_playing(a)
        c == update_track_progress(b)
    IN  MixerLoadPlay(c, path)

update_playing_track(s, index, path) ==
    LET a == [ s EXCEPT !.updater = AfterCancel(@),
                        !.now_playing = { [ index |-> index, path |-> path ] },
                        !.track_duration = Duration(path),
                        !.track_progress = 0,
                        !.is_playing = TRUE ]
        b == reorder_now_playing(a)
        c == update_track_progress(b)
    IN  MixerLoadPlay(c, path)

play(s) ==
    IF s.now_playing # {}
    THEN update_playing_track(s, get_now_playing(s).index, get_now_playing(s).path)
    ELSE IF s.existing_tracks # << >> /\ DictGet(s.playlist, 0) # NoTrack
         THEN update_playing_track(s, 0, DictGet(s.playlist, 0))
         ELSE s

\* A next() that would stay on the last track instead of wrapping.
next_without_wrap(s, finished) ==
    IF s.now_playing = {} THEN play(s)
    ELSE LET index      == get_now_playing(s).index
             track_info == DictGet(s.playlist, index + 1)
         IN  IF track_info = NoTrack THEN s
             ELSE update_playing_track([ s EXCEPT !.now_playing = {} ], index + 1, track_info)

\* A next() that would advance under repeat ONE as under the other modes.
next_ignoring_repeat_one(s, finished) ==
    IF s.now_playing = {} THEN play(s)
    ELSE
    LET index      == get_now_playing(s).index
        track_info == DictGet(s.playlist, index + 1)
        cleared    == [ s EXCEPT !.now_playing = {} ]
    IN  IF track_info = NoTrack
        THEN IF s.repeat = "OFF" /\ finished
             THEN [ cleared EXCEPT !.updater = AfterCancel(@) ]
             ELSE IF s.playlist = << >> THEN cleared
             ELSE IF LastKey(s.playlist) >= index
                  THEN IF DictGet(s.playlist, 0) = NoTrack THEN cleared
                       ELSE update_playing_track(cleared, 0, DictGet(s.playlist, 0))
                  ELSE play(cleared)
        ELSE update_playing_track(cleared, index + 1, track_info)

next(s, finished) ==
    IF s.now_playing = {} THEN play(s)
    ELSE
    LET index      == get_now_playing(s).index
        track_info == DictGet(s.playlist, index + 1)
        cleared    == [ s EXCEPT !.now_playing = {} ]
    IN  IF s.repeat = "ONE" /\ s.track_progress >= s.track_duration
        THEN update_playing_track(s, index, get_now_playing(s).path)
        ELSE IF track_info = NoTrack
        THEN IF s.repeat = "OFF" /\ finished
             THEN [ cleared EXCEPT !.updater = AfterCancel(@) ]
             ELSE IF s.playlist = << >> THEN cleared
             ELSE IF LastKey(s.playlist) >= index
                  THEN IF DictGet(s.playlist, 0) = NoTrack THEN cleared
                       ELSE update_playing_track(cleared, 0, DictGet(s.playlist, 0))
                  ELSE play(cleared)
        ELSE update_playing_track(cleared, index + 1, track_info)

restart(s) ==
    LET index      == get_now_playing(s).index
        track_info == DictGet(s.playlist, index - 1)
        cleared    == [ s EXCEPT !.now_playing = {} ]
    IN  IF s.track_progress > RestartThreshold
        THEN update_playing_track(s, index, get_now_playing(s).path)
        ELSE IF s.playlist = << >> THEN s
        ELSE IF track_info = NoTrack
             THEN update_playing_track(cleared, LastKey(s.playlist),
                                       DictGet(s.playlist, LastKey(s.playlist)))
             ELSE update_playing_track(cleared, index - 1, track_info)

previous(s) == IF s.now_playing = {} THEN play(s) ELSE restart(s)

toggle_playback(s) ==
    IF s.is_playing
    THEN MixerPause([ s EXCEPT !.is_playing = FALSE ])
    ELSE LET t == [ s EXCEPT !.is_playing = TRUE ]
         IN  IF t.playlist # << >> /\ t.now_playing = {} THEN play(t)
             ELSE IF t.playlist # << >> /\ t.now_playing # {} THEN MixerUnpause(t)
             ELSE t

\* An update_repeat() that would switch between OFF and ONE only.
update_repeat_without_all(s) ==
    [ s EXCEPT !.repeat = IF @ = "OFF" THEN "ONE" ELSE "OFF" ]

update_repeat(s) ==
    [ s EXCEPT !.repeat = IF @ = "OFF" THEN "ONE" ELSE IF @ = "ONE" THEN "ALL" ELSE "OFF" ]


\* The index populate_track_info returns (None when the path is already there).
populate_track_info_result(s, path) ==
    IF path \in Paths(s.playlist) THEN NoIndex ELSE Len(s.playlist)

\* A populate_track_info without the scan for the path.
populate_track_info_unchecked(s, path) ==
    [ s EXCEPT !.existing_tracks = IF path \in Range(@) THEN @ ELSE Append(@, path),
               !.playlist = DictSet(@, Len(s.playlist), path) ]

\* The file is in the tracks directory, so shutil.copy2 raises SameFileError
\* and track_path stays the path given.
populate_track_info(s, path) ==
    IF path \in Paths(s.playlist) THEN s
    ELSE [ s EXCEPT !.existing_tracks = IF path \in Range(@) THEN @ ELSE Append(@, path),
                    !.playlist = DictSet(@, Len(s.playlist), path) ]

\* add_existing_tracks(): the scan of the directory at start-up.
RECURSIVE add_existing_tracks(_, _)
add_existing_tracks(s, files) ==
    IF files = << >> THEN s
    ELSE add_existing_tracks(populate_track_info(s, Head(files)), Tail(files))

\* watchdog(), "File removed": for file in self.existing_tracks, from the
\* i-th element on.  The list shrinks under the iterator, which goes on to
\* position i + 1 of the list as it is by then.
RECURSIVE WatchdogRemoved(_, _)
WatchdogRemoved(s, i) ==
    IF i > Len(s.existing_tracks) THEN s
    ELSE LET file == s.existing_tracks[i]
         IN  IF file \notin s.directory /\ file \in Paths(s.playlist)
             THEN WatchdogRemoved(
                      [ s EXCEPT !.existing_tracks = ListRemove(@, file),
                                 !.playlist = SelectSeq(@, LAMBDA e : e.path # file) ],
                      i + 1)
             ELSE WatchdogRemoved(s, i + 1)

\* watchdog(), "File added": for file in files.  TinyTag.get raises on a
\* file it cannot decode; nothing catches it, so the loop ends there.
RECURSIVE WatchdogAdded(_, _)
WatchdogAdded(s, files) ==
    IF files = << >> THEN s
    ELSE IF Head(files) \notin Range(s.existing_tracks)
         THEN IF Head(files) \in s.corrupt THEN s
              ELSE WatchdogAdded(populate_track_info(s, Head(files)), Tail(files))
         ELSE WatchdogAdded(s, Tail(files))

\* The "File added" loop of watchdog() raises.
WatchdogRaises(s) ==
    /\ Cardinality(Range(s.existing_tracks)) < Cardinality(s.directory)
    /\ \E f \in s.corrupt : f \notin Range(s.existing_tracks)

\* A watchdog() that would reset the display when it finds no difference.
watchdog_resetting(s) ==
    LET old == Range(s.existing_tracks)
        new == s.directory
    IN  IF Cardinality(old) > Cardinality(new)
        THEN LET r == WatchdogRemoved(s, 1)
             IN  IF r.playlist # s.playlist THEN reorder_now_playing(r) ELSE r
        ELSE IF Cardinality(old) < Cardinality(new)
             THEN IF WatchdogRaises(s)
                  THEN [ WatchdogAdded(s, Listing(new)) EXCEPT !.file_watcher = FALSE ]
                  ELSE reorder_now_playing(WatchdogAdded(s, Listing(new)))
             ELSE set_to_default(s)

watchdog(s) ==
    LET old == Range(s.existing_tracks)
        new == s.directory
    IN  IF Cardinality(old) > Cardinality(new)
        THEN LET r == WatchdogRemoved(s, 1)
             IN  IF r.playlist # s.playlist THEN reorder_now_playing(r) ELSE r
        ELSE IF Cardinality(old) < Cardinality(new)
             THEN IF WatchdogRaises(s)
                  THEN [ WatchdogAdded(s, Listing(new)) EXCEPT !.file_watcher = FALSE ]
                  ELSE reorder_now_playing(WatchdogAdded(s, Listing(new)))
             ELSE s

\* random.shuffle(self.playlist) exchanges the values of the keys 0..n-1:
\* the value of the i-th key becomes the value of the perm[i]-th.
shuffle_tracks(s, perm) ==
    IF ~ s.can_shuffle THEN s
    ELSE IF Keys(s.playlist) # 0 .. (Len(s.playlist) - 1)
         THEN [ s EXCEPT !.can_shuffle = FALSE ]
         ELSE reorder_now_playing(
                  [ s EXCEPT !.playlist =
                        [ i \in 1 .. Len(@) |-> [ key |-> @[i].key, path |-> @[perm[i]].path ] ] ])

\* Listbox.nearest(event.y): the rows the listbox can answer.
Nearest(s) ==
    IF s.playlist = << >> THEN { NearestOfEmpty } ELSE 0 .. (Len(s.playlist) - 1)

select_track(s, index) == [ s EXCEPT !.selected_index = index ]

\* A missing key raises KeyError before the playlist is touched and
\* can_reorder stays False.
swap_track_index(s, index) ==
    IF ~ s.can_reorder THEN s
    ELSE IF index = s.selected_index THEN s
    ELSE IF DictGet(s.playlist, index) = NoTrack \/ DictGet(s.playlist, s.selected_index) = NoTrack
         THEN [ s EXCEPT !.can_reorder = FALSE ]
         ELSE reorder_now_playing(
                  [ s EXCEPT !.playlist = DictSet(DictSet(@, index, DictGet(@, s.selected_index)),
                                                  s.selected_index, DictGet(@, index)),
                             !.selected_index = index ])

\* A double click: select_track(index), then play_selected_track.
play_selected_track(s, index) ==
    IF DictGet(s.playlist, index) = NoTrack THEN select_track(s, index)
    ELSE update_playing_track(select_track(s, index), index, DictGet(s.playlist, index))

\* The coordinate ranges populate_track_info builds for a track of duration d
\* are (k * 396/d, (k+1) * 396/d) for k in 0 .. round(d)-1; the scan of
\* set_track_position has no break, so the last range holding x wins.
Segments(d, x) ==
    { k \in 0 .. (d - 1) : BarWidth * k <= x * d /\ x * d <= BarWidth * (k + 1) }

\* The offsets set_track_position gives to mixer.set_pos, one for each
\* range of the scan that holds x.
set_track_position_seeks(s, x) ==
    IF 0 <= x /\ x <= BarWidth /\ s.now_playing # {}
    THEN Segments(Duration(get_now_playing(s).path), x)
    ELSE {}

\* A set_track_position that would take a click beside the bar for one on
\* its nearer end.
set_track_position_clamped(s, x) ==
    IF s.now_playing # {}
    THEN LET c    == IF x < 0 THEN 0 ELSE IF x > BarWidth THEN BarWidth ELSE x
             segs == Segments(Duration(get_now_playing(s).path), c)
         IN  IF segs = {} THEN s ELSE [ s EXCEPT !.track_progress = Max(segs) ]
    ELSE s

set_track_position(s, x) ==
    IF 0 <= x /\ x <= BarWidth /\ s.now_playing # {}
    THEN LET segs == Segments(Duration(get_now_playing(s).path), x)
         IN  IF segs = {} THEN s ELSE [ s EXCEPT !.track_progress = Max(segs) ]
    ELSE s

\* An update_tracks_directory() that would keep the playlist it has.
update_tracks_directory_keeping(s, dir, written) ==
    LET r == reorder_now_playing(MixerUnloadStop(set_to_default([ s EXCEPT !.now_playing = {} ])))
    IN  IF written
        THEN [ r EXCEPT !.tracks_directory = "chosen", !.directory = dir, !.corrupt = {} ]
        ELSE r

\* The user chose a directory that holds the files dir.  written: the
\* write of settings.json succeeded and SETTINGS["directory"] is the chosen
\* directory; otherwise open() raised, or the KeyError handler restored the
\* backup and the user dismissed the dialog it opened again.
update_tracks_directory(s, dir, written) ==
    LET cleared == [ s EXCEPT !.now_playing = {},
                              !.playlist = << >>,
                              !.existing_tracks = << >> ]
        r == reorder_now_playing(MixerUnloadStop(set_to_default(cleared)))
    IN  IF written
        THEN [ r EXCEPT !.tracks_directory = "chosen", !.directory = dir, !.corrupt = {} ]
        ELSE r

(***************************************************************************)
(* The volume.  The Scale runs its command (adjust_volume) when it next    *)
(* redraws after its value changed, by the user or by set().               *)
(***************************************************************************)
\* volume_slider.set(value)
SliderSet(v, value) ==
    IF v.slider.value = value THEN v
    ELSE [ v EXCEPT !.slider = [ value |-> value, command |-> TRUE ] ]

\* shutil.copyfile("backup\\settings.json", "settings.json")
load_backup(v) == [ v EXCEPT !.settings_volume = v.backup_volume ]

\* The write either succeeds, or raises the KeyError the handler catches,
\* or raises an OSError (open() refused), which leaves the handler with
\* can_edit False.
RECURSIVE updating_volume(_)
updating_volume(v) ==
    LET c == [ v EXCEPT !.volume_updater = AfterCancel(@) ]
        busy == [ c EXCEPT !.can_edit = FALSE ]
    IN  IF c.can_edit
        THEN IF c.settings_raises = "none"
             THEN [ busy EXCEPT !.settings_volume = c.volume, !.can_edit = TRUE ]
             ELSE IF c.settings_raises = "KeyError"
             THEN [ updating_volume(load_backup(busy)) EXCEPT !.can_edit = TRUE ]
             ELSE busy
        ELSE [ c EXCEPT !.volume_updater = After(@) ]

toggle_mute(v) ==
    IF ~ v.is_muted
    THEN [ v EXCEPT !.is_muted = TRUE, !.device_volume = 0 ]
    ELSE [ v EXCEPT !.is_muted = FALSE, !.device_volume = v.volume ]

decrease_volume(v) ==
    LET n == IF v.volume - VolumeStep <= 0 THEN 0 ELSE v.volume - VolumeStep
    IN  updating_volume(SliderSet([ v EXCEPT !.volume = n, !.device_volume = n ], n))

\* An increase_volume without the cap.
increase_volume_uncapped(v) ==
    LET n == v.volume + VolumeStep
    IN  updating_volume(SliderSet([ v EXCEPT !.volume = n, !.device_volume = n ], n))

increase_volume(v) ==
    LET n == IF v.volume + VolumeStep >= MaxVolume THEN MaxVolume ELSE v.volume + VolumeStep
    IN  updating_volume(SliderSet([ v EXCEPT !.volume = n, !.device_volume = n ], n))

adjust_volume(v, value) ==
    updating_volume(
        [ v EXCEPT !.volume = value,
                   !.is_muted = IF value = 0 THEN TRUE ELSE IF value > 1 THEN FALSE ELSE @,
                   !.device_volume = value ])

(***************************************************************************)
(* The state machine.                                                      *)
(***************************************************************************)
\* Positions the user may leave the volume slider at, and stored volumes
\* the Player may start from.
SliderValues == { 0, 1, 2, 5, 50, 95, 99, 100 }

\* Pixels the user may click on the progress bar (and just outside it).
SeekCoordinates == { -1, 0, 132, 198, 300, 396, 397 }

ShuffleOutcomes(n) == { f \in [ 1 .. n -> 1 .. n ] : \A i, j \in 1 .. n : f[i] = f[j] => i = j }

\* Player.__init__: the class attributes, canvas() (which scans the
\* directory) and the first watchdog() call, which finds nothing changed.
\* The volume after Player.__init__ with SETTINGS["volume"] = v: the class
\* attributes, mixer.set_volume and, in canvas(), the first set() of the
\* slider, whose command is then due.
VolStarts(v) ==
    /\ volume = v
    /\ is_muted = FALSE
    /\ device_volume = v
    /\ slider = [ value |-> v, command |-> TRUE ]
    /\ settings_volume = v
    /\ can_edit = TRUE
    /\ volume_updater = [ n |-> 0, live |-> FALSE ]
    /\ settings_raises = "none"
    /\ backup_volume = v

PlaybackStartsIn(dir) ==
    Starts(add_existing_tracks(
        [ tracks_directory |-> "tracks",
          directory       |-> dir,
          corrupt         |-> {},
          file_watcher    |-> TRUE,
          playlist        |-> << >>,
          now_playing     |-> {},
          existing_tracks |-> << >>,
          track_progress  |-> 0,
          track_duration  |-> 0,
          is_playing      |-> FALSE,
          repeat          |-> "OFF",
          selected_index  |-> NoIndex,
          can_shuffle     |-> TRUE,
          can_reorder     |-> TRUE,
          updater         |-> [ n |-> 0, live |-> FALSE ],
          repeater        |-> [ n |-> 0, live |-> FALSE ],
          mixer           |-> "unloaded" ],
        Listing(dir)))

PlaybackStarts == \E dir \in SUBSET Files : PlaybackStartsIn(dir)

\* The Player started on a directory of one file more than Files, all of
\* them loaded into the playlist.
InitLibrary == PlaybackStartsIn(1 .. (NumFiles + 1)) /\ VolStarts(DefaultVolume)

Init == PlaybackStarts /\ VolStarts(DefaultVolume)

\* The Player started with any stored volume.
InitVolume == PlaybackStarts /\ \E v \in SliderValues : VolStarts(v)

\* A file is copied into the tracks directory (add_tracks, or any program).
FileAdded(W) ==
    \E f \in FilesOf(tracks_directory) \ directory :
        Step(W, "file_added", << f >>, [ St EXCEPT !.directory = @ \cup { f } ])

\* A file of the tracks directory is deleted (remove_tracks, or any program).
FileRemoved(W) ==
    \E f \in directory :
        Step(W, "file_removed", << f >>,
             [ St EXCEPT !.directory = @ \ { f }, !.corrupt = @ \ { f } ])

\* A file that TinyTag cannot decode is copied into the tracks directory.
FileAddedUndecodable(W) ==
    \E f \in FilesOf(tracks_directory) \ directory :
        Step(W, "file_added", << f >>,
             [ St EXCEPT !.directory = @ \cup { f }, !.corrupt = @ \cup { f } ])

\* The callback scheduled in self.file_watcher fires.
Watchdog(W) ==
    /\ file_watcher
    /\ Step(W, "watchdog", << >>, watchdog(St))

\* The callback scheduled in self.updater fires.
ProgressTick(W) ==
    /\ updater.n > 0
    /\ Step(W, "update_track_progress", << >>,
            update_track_progress([ St EXCEPT !.updater = Fired(@) ]))

\* The callback scheduled in self.repeater fires.
IdlePoll(W) ==
    /\ repeater.n > 0
    /\ Step(W, "idle_poll", << >>,
            update_track_progress([ St EXCEPT !.repeater = Fired(@) ]))

TogglePlayback(W) == Step(W, "toggle_playback", << >>, toggle_playback(St))

Previous(W) == Step(W, "previous", << >>, previous(St))

NextTrack(W) == Step(W, "next", << >>, next(St, FALSE))

UpdateRepeat(W) == Step(W, "update_repeat", << >>, update_repeat(St))

ShuffleTracks(W) ==
    \E perm \in ShuffleOutcomes(Len(playlist)) :
        Step(W, "shuffle_tracks", perm, shuffle_tracks(St, perm))

SelectTrack(W) ==
    \E index \in Nearest(St) : Step(W, "select_track", << index >>, select_track(St, index))

\* B1-Motion follows a Button-1 on the listbox, so a row has been selected.
SwapTrackIndex(W) ==
    /\ selected_index # NoIndex
    /\ \E index \in Nearest(St) :
           Step(W, "swap_track_index", << index >>, swap_track_index(St, index))

PlaySelectedTrack(W) ==
    \E index \in Nearest(St) :
        Step(W, "play_selected_track", << index >>, play_selected_track(St, index))

SetTrackPosition(W) ==
    \E x \in SeekCoordinates :
        Step(W, "set_track_position", << x >>, set_track_position(St, x))

DecreaseVolume(W) == VolStep(W, "decrease_volume", << >>, decrease_volume(Vol))

IncreaseVolume(W) == VolStep(W, "increase_volume", << >>, increase_volume(Vol))

ToggleMute(W) == VolStep(W, "toggle_mute", << >>, toggle_mute(Vol))

\* The user drags the volume slider to another value.
SlideVolume(W) ==
    \E value \in SliderValues \ { slider.value } :
        VolStep(W, "slide", << value >>, SliderSet(Vol, value))

\* The slider redraws and runs its command with its value.
SliderCommand(W) ==
    /\ slider.command
    /\ VolStep(W, "adjust_volume", << slider.value >>,
               adjust_volume([ Vol EXCEPT !.slider.command = FALSE ], slider.value))

\* "Set Default Directory": the user chooses another directory.
UpdateTracksDirectory(W) ==
    /\ tracks_directory = "tracks"
    /\ \E dir \in SUBSET ChosenFiles :
           Step(W, "update_tracks_directory", dir,
                update_tracks_directory(St, dir, settings_raises = "none"))

\* settings.json becomes writable, or unwritable in one of the two ways.
SettingsFault(W) ==
    \E e \in { "none", "KeyError", "OSError" } \ { settings_raises } :
        VolStep(W, "settings_fault", << e >>, [ Vol EXCEPT !.settings_raises = e ])

\* The callback scheduled in self.volume_updater fires.
DeferredWrite(W) ==
    /\ volume_updater.n > 0
    /\ VolStep(W, "updating_volume", << >>,
               updating_volume([ Vol EXCEPT !.volume_updater = Fired(@) ]))

\* Every callback of the Player and every change of the directory, the
\* handlers of W observed.
PlayerNext(W) ==
    \/ FileAdded(W)
    \/ FileRemoved(W)
    \/ Watchdog(W)
    \/ ProgressTick(W)
    \/ IdlePoll(W)
    \/ TogglePlayback(W)
    \/ Previous(W)
    \/ NextTrack(W)
    \/ UpdateRepeat(W)
    \/ ShuffleTracks(W)
    \/ SelectTrack(W)
    \/ SwapTrackIndex(W)
    \/ PlaySelectedTrack(W)
    \/ SetTrackPosition(W)

\* The Player, no handler observed.
Next == PlayerNext({})

Spec == Init /\ [][Next]_vars

\* The Player, the watchdog observed.
NextWatchdog == PlayerNext({ "watchdog" })

SpecWatchdog == Init /\ [][NextWatchdog]_vars

\* The Player, next() observed, from the button and from the progress clock.
NextPlayback == PlayerNext({ "next", "update_track_progress" })

SpecPlayback == Init /\ [][NextPlayback]_vars

\* The Player, the reordering handlers observed.
NextReorder == PlayerNext({ "swap_track_index", "shuffle_tracks" })

SpecReorder == Init /\ [][NextReorder]_vars

\* The Player and a directory that also receives undecodable files, the
\* watchdog observed.  (Every other specification takes the files of the
\* directory to be decodable.)
NextDecode ==
    \/ PlayerNext({ "watchdog" })
    \/ FileAddedUndecodable({ "watchdog" })

SpecDecode == Init /\ [][NextDecode]_vars

\* The volume controls, the handlers of W observed.
VolumeNext(W) ==
    \/ DecreaseVolume(W)
    \/ IncreaseVolume(W)
    \/ ToggleMute(W)
    \/ SlideVolume(W)
    \/ SliderCommand(W)

\* The volume controls, each handler observed.
NextVolume ==
    VolumeNext({ "decrease_volume", "increase_volume", "toggle_mute", "adjust_volume" })

SpecVolume == InitVolume /\ [][NextVolume]_vars

\* The Player, the play/pause and previous buttons observed.
NextToggle == PlayerNext({ "toggle_playback", "previous" })

SpecToggle == Init /\ [][NextToggle]_vars

\* The Player, the clicks on the progress bar observed.
NextSeek == PlayerNext({ "set_track_position" })

SpecSeek == Init /\ [][NextSeek]_vars

\* The Player, the repeat button observed.
NextRepeat == PlayerNext({ "update_repeat" })

SpecRepeat == Init /\ [][NextRepeat]_vars

\* The Player, both callbacks of the progress clock observed.
NextClock == PlayerNext({ "update_track_progress", "idle_poll" })

SpecClock == Init /\ [][NextClock]_vars

\* The Player with a watchdog that keeps running: each run schedules the
\* next one, and the event loop runs a callback that is due.
SpecReconcile == Init /\ [][Next]_vars /\ WF_vars(Watchdog({}))

\* The Player on the larger directory: files are deleted, the watchdog and
\* the progress clock run, rows are double-clicked and previous is pressed
\* (observed).
NextLibrary ==
    \/ FileRemoved({ "previous" })
    \/ Watchdog({ "previous" })
    \/ ProgressTick({ "previous" })
    \/ PlaySelectedTrack({ "previous" })
    \/ Previous({ "previous" })

SpecLibrary == InitLibrary /\ [][NextLibrary]_vars

\* The volume buttons with a settings.json whose write may fail, each
\* handler that writes it observed.
WritesSettings == { "decrease_volume", "increase_volume", "adjust_volume", "updating_volume" }

NextSettings ==
    \/ DecreaseVolume(WritesSettings)
    \/ IncreaseVolume(WritesSettings)
    \/ SliderCommand(WritesSettings)
    \/ SettingsFault(WritesSettings)
    \/ DeferredWrite(WritesSettings)

SpecSettings == Init /\ [][NextSettings]_vars

\* The Player with the settings window: the directory may be changed
\* (observed).
NextDirectory ==
    \/ PlayerNext({ "update_tracks_directory" })
    \/ UpdateTracksDirectory({ "update_tracks_directory" })

SpecDirectory == Init /\ [][NextDirectory]_vars

\* The Player on a directory that does not change: a row is double-clicked,
\* play/pause, next and repeat are pressed, the progress clock runs; every
\* handler is observed.  The event loop runs a callback that is due.
Autoplay == { "play_selected_track", "toggle_playback", "next", "update_repeat",
              "update_track_progress", "idle_poll" }

NextAutoplay ==
    \/ PlaySelectedTrack(Autoplay)
    \/ TogglePlayback(Autoplay)
    \/ NextTrack(Autoplay)
    \/ UpdateRepeat(Autoplay)
    \/ ProgressTick(Autoplay)
    \/ IdlePoll(Autoplay)

SpecAutoplay ==
    /\ Init
    /\ [][NextAutoplay]_vars
    /\ WF_vars(ProgressTick(Autoplay))
    /\ WF_vars(IdlePoll(Autoplay))

\* The playback and volume controls that are not meant to edit the playlist,
\* each observed, on a directory that changes under the file watcher.
Controls == { "play_selected_track", "toggle_playback", "next", "previous",
              "set_track_position", "update_repeat", "toggle_mute" }

NextControls ==
    \/ FileAdded(Controls)
    \/ FileRemoved(Controls)
    \/ Watchdog(Controls)
    \/ ProgressTick(Controls)
    \/ PlaySelectedTrack(Controls)
    \/ TogglePlayback(Controls)
    \/ NextTrack(Controls)
    \/ Previous(Controls)
    \/ SetTrackPosition(Controls)
    \/ UpdateRepeat(Controls)
    \/ ToggleMute(Controls)

SpecControls == Init /\ [][NextControls]_vars

(***************************************************************************)
(* Properties.  A property of what a handler does reads the state the      *)
(* handler found in last.pre and the state it left in the variables.       *)
(***************************************************************************)
Ran(op) == last.op = op

\* The NowPlaying of state s, None or the pair of index and track.
NowPlayingIs(s, index, path) == s.now_playing = { [ index |-> index, path |-> path ] }

\* The watchdog found fewer files than it knew and the file of NowPlaying gone.
ShrankUnderNowPlaying(s) ==
    /\ Cardinality(Range(s.existing_tracks)) > Cardinality(s.directory)
    /\ s.now_playing # {}
    /\ get_now_playing(s).path \in Range(s.existing_tracks) \ s.directory

\* C1: between callbacks the indices of the playlist are exactly the
\* contiguous range 0 .. n-1, n being the number of its entries.
IndicesContiguous == Keys(playlist) = 0 .. (Len(playlist) - 1)

\* The watchdog removed the first of two tracks and the second moved to index 0.
WatchdogReindexed ==
    /\ Ran("watchdog")
    /\ Len(last.pre.playlist) = 2
    /\ Len(playlist) = 1
    /\ playlist[1].path = last.pre.playlist[2].path

\* C2: adding a path that is already in the playlist returns None and
\* changes nothing, and no two entries of the playlist share a path.
NoDuplicatePaths ==
    /\ \A path \in Paths(playlist) :
           /\ populate_track_info_result(St, path) = NoIndex
           /\ populate_track_info(St, path) = St
    /\ \A i, j \in 1 .. Len(playlist) : playlist[i].path = playlist[j].path => i = j

\* The watchdog went over a directory holding a file of the playlist and a
\* new file, and added the new one only.
WatchdogAddedBesidePresent ==
    /\ Ran("watchdog")
    /\ Len(last.pre.playlist) = 1
    /\ Paths(last.pre.playlist) \subseteq last.pre.directory
    /\ Len(playlist) = 2
    /\ playlist[1] = last.pre.playlist[1]

\* C3: between callbacks, if NowPlaying is (i, t) then the playlist holds
\* track t at index i.
NowPlayingInPlaylist ==
    \A e \in now_playing : DictGet(playlist, e.index) = e.path

\* C4: when the watchdog finds the directory shrunk and the file of
\* NowPlaying gone, after it the track is not in the playlist, NowPlaying is
\* absent, the device is stopped and elapsed and duration are 0, whatever
\* the size of the playlist was.
WatchdogClearsNowPlaying ==
    Ran("watchdog") /\ ShrankUnderNowPlaying(last.pre)
        => /\ get_now_playing(last.pre).path \notin Paths(playlist)
           /\ now_playing = {}
           /\ mixer = "unloaded"
           /\ track_progress = 0
           /\ track_duration = 0

\* C5: the directory and the playlist hold one track, which is NowPlaying,
\* and its file is deleted: the next watchdog leaves the playlist empty,
\* NowPlaying absent and the device stopped and unloaded.
OnlyTrackDeleted ==
    \A a \in Files :
        /\ Ran("watchdog")
        /\ Paths(last.pre.playlist) = { a }
        /\ Range(last.pre.existing_tracks) = { a }
        /\ NowPlayingIs(last.pre, 0, a)
        /\ last.pre.directory = {}
        => /\ playlist = << >>
           /\ now_playing = {}
           /\ mixer = "unloaded"

\* The watchdog ran after the only track was deleted while the device played it.
OnlyTrackDeletedWhilePlaying ==
    /\ Ran("watchdog")
    /\ Len(last.pre.playlist) = 1
    /\ last.pre.now_playing # {}
    /\ NowPlayingIs(last.pre, 0, last.pre.playlist[1].path)
    /\ last.pre.directory = {}
    /\ last.pre.mixer = "playing"
    /\ mixer = "unloaded"

\* next() pressed k times in a row from state s, nothing in between.
RECURSIVE NextTimes(_, _)
NextTimes(s, k) == IF k = 0 THEN s ELSE next(NextTimes(s, k - 1), FALSE)

NowPlayingAt(s, index) == \E e \in s.now_playing : e.index = index

\* C6: with repeat ALL, a playlist of n >= 1 tracks and NowPlaying at index
\* 0, next() called k < n times leaves NowPlaying at index k, and called n
\* times leaves it at index 0, the playlist unchanged.
RepeatAllCycles ==
    LET n == Len(playlist)
    IN  repeat = "ALL" /\ n >= 1 /\ NowPlayingAt(St, 0)
            => /\ \A k \in 0 .. (n - 1) :
                      /\ NowPlayingAt(NextTimes(St, k), k)
                      /\ NextTimes(St, k).playlist = playlist
               /\ NowPlayingAt(NextTimes(St, n), 0)
               /\ NextTimes(St, n).playlist = playlist

\* next() has just wrapped from the last of two tracks to the first, repeat ALL.
RepeatAllWrapped ==
    /\ Ran("next")
    /\ last.pre.repeat = "ALL"
    /\ Len(last.pre.playlist) = 2
    /\ NowPlayingAt(last.pre, 1)
    /\ playlist = last.pre.playlist
    /\ repeat = "ALL"
    /\ NowPlayingAt(St, 0)

\* The progress clock found the track complete: it called next(finished=True).
Completed(s) ==
    /\ s.is_playing
    /\ s.track_progress >= s.track_duration
    /\ s.now_playing # {}

\* C7: next(finished=True) with NowPlaying at the last index and repeat OFF
\* stops playback (the Player is no longer playing, no progress tick is
\* pending), leaves NowPlaying absent and does not reset elapsed.
EndOfPlaylistStops ==
    /\ Ran("update_track_progress")
    /\ Completed(last.pre)
    /\ last.pre.repeat = "OFF"
    /\ last.pre.playlist # << >>
    /\ NowPlayingAt(last.pre, Len(last.pre.playlist) - 1)
    => /\ ~ is_playing
       /\ updater.n = 0
       /\ now_playing = {}
       /\ track_progress = last.pre.track_progress

\* C8: playlist [A, B], NowPlaying A, playing, repeat OFF.  The progress
\* tick at elapsed = duration(A) - 1 brings elapsed to duration(A); the
\* completion calls next(finished=True), after which NowPlaying is B at
\* index 1 and elapsed is 0.
CompletionAdvances ==
    \A A, B \in Files :
        /\ Ran("update_track_progress")
        /\ last.pre.playlist = << [ key |-> 0, path |-> A ], [ key |-> 1, path |-> B ] >>
        /\ NowPlayingIs(last.pre, 0, A)
        /\ last.pre.is_playing
        /\ last.pre.repeat = "OFF"
        /\ last.pre.track_duration = Duration(A)
        => /\ last.pre.track_progress = Duration(A) - 1
                  => track_progress = Duration(A) /\ NowPlayingIs(St, 0, A)
           /\ last.pre.track_progress = Duration(A)
                  => NowPlayingIs(St, 1, B) /\ track_progress = 0

\* The playlist d with the tracks at indices i and j exchanged.
Exchanged(d, i, j) ==
    [ k \in 1 .. Len(d) |->
        [ key  |-> k - 1,
          path |-> IF k - 1 = i THEN DictGet(d, j)
                   ELSE IF k - 1 = j THEN DictGet(d, i) ELSE d[k].path ] ]

\* NowPlaying is the track of path, at the index the playlist holds it at.
NowPlayingFollows(path) ==
    \E k \in 1 .. Len(playlist) :
        playlist[k].path = path /\ NowPlayingIs(St, playlist[k].key, path)

\* C9: a drag from row i to row j # i exchanges the tracks at i and j and
\* leaves the others in place; a track that was NowPlaying is NowPlaying
\* afterwards, at its new index; a drag from i to i changes nothing.
ReorderExchanges ==
    Ran("swap_track_index")
        => LET i == last.pre.selected_index
               j == last.arg[1]
               d == last.pre.playlist
           IN  i \in Keys(d) /\ j \in Keys(d)
                   => IF i = j THEN St = last.pre
                      ELSE /\ playlist = Exchanged(d, i, j)
                           /\ \A e \in last.pre.now_playing : NowPlayingFollows(e.path)

\* C10: shuffle leaves the playlist a permutation of what it was; a track
\* that was NowPlaying is NowPlaying afterwards, at its new index; whether
\* the Player plays and the elapsed time are unchanged.
ShufflePermutes ==
    Ran("shuffle_tracks")
        => /\ Len(playlist) = Len(last.pre.playlist)
           /\ Paths(playlist) = Paths(last.pre.playlist)
           /\ \A e \in last.pre.now_playing : NowPlayingFollows(e.path)
           /\ is_playing = last.pre.is_playing
           /\ mixer = last.pre.mixer
           /\ track_progress = last.pre.track_progress

\* States r and s agree on whether the Player plays, on the device, on
\* NowPlaying, on elapsed and on the playlist.
SamePlayback(r, s) ==
    /\ r.is_playing = s.is_playing
    /\ r.mixer = s.mixer
    /\ r.now_playing = s.now_playing
    /\ r.track_progress = s.track_progress
    /\ r.playlist = s.playlist

\* C11: on an empty playlist each of play, toggle_playback, next, previous,
\* seek and shuffle leaves the playback state, NowPlaying, elapsed and the
\* playlist as they are.
NoOpOnEmptyPlaylist ==
    playlist = << >>
        => /\ SamePlayback(play(St), St)
           /\ SamePlayback(toggle_playback(St), St)
           /\ SamePlayback(next(St, FALSE), St)
           /\ SamePlayback(previous(St), St)
           /\ \A x \in SeekCoordinates : SamePlayback(set_track_position(St, x), St)
           /\ \A perm \in ShuffleOutcomes(0) : SamePlayback(shuffle_tracks(St, perm), St)

\* C12: when a watchdog finds new files and one of them cannot be decoded,
\* that file is not added, the other new files are added, and the failure
\* does not propagate: the watchdog is scheduled again.
DecodeFailureSkipped ==
    LET new == last.pre.directory \ Range(last.pre.existing_tracks)
    IN  /\ Ran("watchdog")
        /\ Cardinality(Range(last.pre.existing_tracks)) < Cardinality(last.pre.directory)
        /\ new \cap last.pre.corrupt # {}
        => /\ \A f \in new \cap last.pre.corrupt : f \notin Paths(playlist)
           /\ \A f \in new \ last.pre.corrupt : f \in Paths(playlist)
           /\ file_watcher

\* C13: the stored volume stays within 0 .. 100; increase_volume adds 10
\* capped at 100 and decrease_volume subtracts 10 floored at 0.
VolumeInRange ==
    /\ volume \in 0 .. 100
    /\ Ran("increase_volume")
           => volume = IF last.pre.volume + 10 > 100 THEN 100 ELSE last.pre.volume + 10
    /\ Ran("decrease_volume")
           => volume = IF last.pre.volume - 10 < 0 THEN 0 ELSE last.pre.volume - 10

\* increase_volume has just met the cap.
VolumeCapped ==
    /\ Ran("increase_volume")
    /\ last.pre.volume = 95
    /\ volume = 100

\* C14: whenever the Player is muted the volume last forwarded to the
\* device is 0.
MutedIsSilent == is_muted => device_volume = 0

\* C15: toggle_mute does not change the stored volume, and a second
\* toggle_mute restores the mute flag and the device volume the first found.
ToggleMuteTwiceRestores ==
    Ran("toggle_mute")
        => /\ volume = last.pre.volume
           /\ toggle_mute(Vol).volume = last.pre.volume
           /\ toggle_mute(Vol).is_muted = last.pre.is_muted
           /\ toggle_mute(Vol).device_volume = last.pre.device_volume

\* C16: after adjust_volume(v) the Player is muted if v = 0 and not muted
\* if v > 0, whatever it was before.
AdjustVolumeSetsMuted ==
    Ran("adjust_volume")
        => /\ last.arg[1] = 0 => is_muted
           /\ last.arg[1] > 0 => ~ is_muted

\* C17: a click at x outside 0 .. 396, or with NowPlaying absent, changes
\* neither elapsed nor the position of the device.
SeekOutsideIgnored ==
    /\ Ran("set_track_position")
    /\ \/ last.arg[1] < 0
       \/ last.arg[1] > 396
       \/ last.pre.now_playing = {}
    => /\ track_progress = last.pre.track_progress
       /\ set_track_position_seeks(last.pre, last.arg[1]) = {}

\* A click right of the bar while a track was loaded and not at its last second.
SeekRightOfBar ==
    /\ Ran("set_track_position")
    /\ last.arg[1] > 396
    /\ last.pre.now_playing # {}
    /\ last.pre.track_progress < last.pre.track_duration - 1

\* C18: for a track of d whole seconds and a click at x in 0 .. 396, the
\* offset the scan of the ranges chooses is floor(x / (396 / d)), at the
\* edges of the ranges and at x = 396 too.
SeekIsFloor ==
    /\ Ran("set_track_position")
    /\ last.arg[1] \in 0 .. 396
    /\ last.pre.now_playing # {}
    => track_progress = (last.arg[1] * Duration(get_now_playing(last.pre).path)) \div 396

\* C19: toggle_playback while playing pauses and keeps NowPlaying and
\* elapsed; while not playing it makes the Player play; and whenever
\* NowPlaying is absent and the playlist is not empty it makes index 0
\* NowPlaying.
TogglePlaybackToggles ==
    Ran("toggle_playback")
        => /\ last.pre.is_playing
                  => /\ ~ is_playing
                     /\ now_playing = last.pre.now_playing
                     /\ track_progress = last.pre.track_progress
           /\ ~ last.pre.is_playing => is_playing
           /\ last.pre.now_playing = {} /\ last.pre.playlist # << >>
                  => NowPlayingAt(St, 0)

\* C20: play() with NowPlaying present keeps NowPlaying and restarts the
\* track from the beginning (elapsed 0, playing); with NowPlaying absent
\* and a playlist that is not empty it makes index 0 NowPlaying.
PlayRestarts ==
    /\ now_playing # {}
           => /\ play(St).now_playing = now_playing
              /\ play(St).track_progress = 0
              /\ play(St).is_playing
    /\ now_playing = {} /\ playlist # << >> => NowPlayingAt(play(St), 0)


\* C21: previous() with NowPlaying at index i and elapsed <= 2 makes
\* NowPlaying index i-1 when i > 0 and the last index n-1 when i = 0;
\* previous() with NowPlaying absent does what play() does.
PreviousGoesBack ==
    Ran("previous")
        => /\ last.pre.now_playing # {} /\ last.pre.track_progress <= 2
                  => LET i == get_now_playing(last.pre).index
                         n == Len(last.pre.playlist)
                     IN  IF i > 0 THEN NowPlayingAt(St, i - 1)
                                  ELSE NowPlayingAt(St, n - 1)
           /\ last.pre.now_playing = {} => St = play(last.pre)

\* C22: restart() with elapsed > 2 keeps NowPlaying on the same index and
\* track and reloads it from zero (elapsed 0, playing); with elapsed 2 or
\* less it takes the previous-track branch.
RestartReloads ==
    Ran("previous") /\ last.pre.now_playing # {}
        => /\ last.pre.track_progress > 2
                  => /\ now_playing = last.pre.now_playing
                     /\ is_playing
                     /\ track_progress = 0
           /\ last.pre.track_progress <= 2
                  => LET i == get_now_playing(last.pre).index
                     IN  NowPlayingAt(St, IF i > 0 THEN i - 1
                                          ELSE Len(last.pre.playlist) - 1)


\* C23: with repeat ONE and elapsed >= duration, next() and the completion
\* next(finished=True) keep NowPlaying on the same index and track and the
\* Player playing, at any index; with repeat ONE and elapsed < duration
\* next() advances to index+1 (to index 0 from the last index).
RepeatOneReloads ==
    /\ Ran("next") /\ last.pre.now_playing # {} /\ last.pre.repeat = "ONE"
           => LET i == get_now_playing(last.pre).index
              IN  IF last.pre.track_progress >= last.pre.track_duration
                  THEN now_playing = last.pre.now_playing /\ is_playing
                  ELSE NowPlayingAt(St, IF i + 1 < Len(last.pre.playlist)
                                        THEN i + 1 ELSE 0)
    /\ Ran("update_track_progress") /\ Completed(last.pre) /\ last.pre.repeat = "ONE"
           => now_playing = last.pre.now_playing /\ is_playing

\* The last of two tracks completed under repeat ONE and was loaded again.
RepeatOneAtLastIndex ==
    /\ Ran("update_track_progress")
    /\ Completed(last.pre)
    /\ last.pre.repeat = "ONE"
    /\ Len(last.pre.playlist) = 2
    /\ NowPlayingAt(last.pre, 1)
    /\ NowPlayingAt(St, 1)
    /\ track_progress = 1


\* NowPlaying of state s is the last entry of a playlist keyed 0..n-1.
AtLastIndex(s) ==
    /\ s.playlist # << >>
    /\ Keys(s.playlist) = 0 .. (Len(s.playlist) - 1)
    /\ NowPlayingIs(s, Len(s.playlist) - 1, s.playlist[Len(s.playlist)].path)

\* C24: next() with NowPlaying at the last index of a consistent playlist
\* makes index 0 NowPlaying and leaves the Player playing when repeat is ALL
\* (finished or not) or when the call is not a completion and the track is
\* not fully elapsed; in these states the last key is never below the
\* index, so the play() fallback is not taken.
NextWrapsFromLast ==
    /\ Ran("next") /\ AtLastIndex(last.pre)
       /\ (last.pre.repeat = "ALL" \/ last.pre.track_progress < last.pre.track_duration)
           => /\ NowPlayingIs(St, 0, last.pre.playlist[1].path)
              /\ is_playing
              /\ LastKey(last.pre.playlist) >= get_now_playing(last.pre).index
    /\ Ran("update_track_progress") /\ Completed(last.pre) /\ AtLastIndex(last.pre)
       /\ last.pre.repeat = "ALL"
           => /\ NowPlayingIs(St, 0, last.pre.playlist[1].path)
              /\ is_playing
              /\ LastKey(last.pre.playlist) >= get_now_playing(last.pre).index

\* next() pressed on the last of two tracks, before its end, with repeat OFF.
NextPressedAtLastIndex ==
    /\ Ran("next")
    /\ AtLastIndex(last.pre)
    /\ Len(last.pre.playlist) = 2
    /\ last.pre.repeat = "OFF"
    /\ last.pre.track_progress < last.pre.track_duration
    /\ NowPlayingAt(St, 0)


\* C25: the repeat mode starts OFF; update_repeat moves it OFF -> ONE ->
\* ALL -> OFF, so three calls in a row return to the mode they started
\* from; and a call changes neither NowPlaying, whether the Player plays,
\* elapsed nor the playlist.
RepeatCycles ==
    /\ repeat = "OFF"
    /\ [](/\ Ran("update_repeat")
                => /\ << last.pre.repeat, repeat >>
                          \in { << "OFF", "ONE" >>, << "ONE", "ALL" >>, << "ALL", "OFF" >> }
                   /\ SamePlayback(last.pre, St)
          /\ update_repeat(update_repeat(update_repeat(St))) = St)

\* The repeat button pressed under repeat ALL while a track plays.
RepeatCycledToOff ==
    /\ Ran("update_repeat")
    /\ last.pre.repeat = "ALL"
    /\ repeat = "OFF"
    /\ is_playing
    /\ now_playing # {}


\* A callback of the progress clock ran.
Ticked == Ran("update_track_progress") \/ Ran("idle_poll")

\* State s with the elapsed time and the timers of state r.
ButClock(s, r) ==
    [ s EXCEPT !.track_progress = r.track_progress,
               !.updater = r.updater,
               !.repeater = r.repeater ]

\* C26: a tick of the progress clock while the Player plays and elapsed <
\* duration adds exactly 1 to elapsed, schedules the next tick and changes
\* nothing else; a tick while the Player does not play leaves elapsed as it
\* was and schedules itself again, so a paused track keeps its position.
TickCounts ==
    Ticked
        => /\ last.pre.is_playing /\ last.pre.track_progress < last.pre.track_duration
                  => /\ track_progress = last.pre.track_progress + 1
                     /\ updater.live
                     /\ ButClock(St, last.pre) = last.pre
           /\ ~ last.pre.is_playing
                  => /\ track_progress = last.pre.track_progress
                     /\ repeater.live
                     /\ ButClock(St, last.pre) = last.pre

\* The idle poll ran a second time on a paused track.
PausedTickedTwice ==
    /\ Ran("idle_poll")
    /\ ~ last.pre.is_playing
    /\ last.pre.now_playing # {}
    /\ last.pre.track_progress \in 1 .. (last.pre.track_duration - 1)
    /\ track_progress = last.pre.track_progress


\* C27: between callbacks at most one callback of the progress clock is
\* pending, the playing tick and the idle poll counted together, and the
\* pending one is the one scheduled last: a change of track cancels the
\* tick of the track before, so no tick of an earlier track is left to
\* count for a later one.
OneClockPending ==
    /\ updater.n + repeater.n <= 1
    /\ updater.n > 0 => updater.live
    /\ repeater.n > 0 => repeater.live

\* next() changed the track while the tick of the track before was pending.
TrackChangedUnderTick ==
    /\ Ran("next")
    /\ last.pre.updater.n = 1
    /\ last.pre.now_playing # {}
    /\ now_playing # {}
    /\ get_now_playing(St).path # get_now_playing(last.pre).path
    /\ updater.n = 1


\* C28: one run of the watchdog handles the whole difference it finds: when
\* the set of files shrank, no playlist entry is left whose path is not in
\* the directory, however many files vanished; when it grew, every new file
\* of the directory has a playlist entry.
WatchdogHandlesDifference ==
    Ran("watchdog")
        => LET old == Range(last.pre.existing_tracks)
               new == last.pre.directory
           IN  /\ new \subseteq old /\ new # old => Paths(playlist) \subseteq directory
               /\ old \subseteq new /\ new # old => new \subseteq Paths(playlist)


\* C29: once the directory stops changing, after finitely many runs of the
\* watchdog the paths of the playlist are the files of the directory,
\* whatever the change was, files removed and added between two runs with
\* the number of files kept or grown included.
DirectoryReconciled ==
    \A D \in SUBSET Files :
        <>[](directory = D) => <>[](Paths(playlist) = D)


\* C30: a run of the watchdog that finds the files of the directory to be
\* the set it recorded changes neither the playlist, NowPlaying, whether
\* the Player plays, the device nor elapsed.
WatchdogIdleChangesNothing ==
    Ran("watchdog") /\ Range(last.pre.existing_tracks) = last.pre.directory
        => /\ SamePlayback(last.pre, St)
           /\ existing_tracks = last.pre.existing_tracks
           /\ track_duration = last.pre.track_duration

\* The watchdog ran on an unchanged directory while a track was playing.
WatchdogIdleWhilePlaying ==
    /\ Ran("watchdog")
    /\ Range(last.pre.existing_tracks) = last.pre.directory
    /\ last.pre.is_playing
    /\ last.pre.now_playing # {}
    /\ last.pre.track_progress > 0
    /\ track_progress = last.pre.track_progress


\* A handler that ends in updating_volume() ran.
WroteSettings ==
    Ran("decrease_volume") \/ Ran("increase_volume") \/ Ran("adjust_volume")
        \/ Ran("updating_volume")

\* C31: a write of the volume that fails restores settings.json from the
\* backup and leaves exactly one retry of the write pending; a request that
\* finds the writer busy is deferred, not queued, so at most one deferred
\* retry is pending at any time; and can_edit is True again whenever a
\* write attempt is over.
FailedWriteRecovers ==
    /\ volume_updater.n <= 1
    /\ WroteSettings => can_edit
    /\ WroteSettings /\ last.pre.can_edit /\ last.pre.settings_raises # "none"
           => /\ settings_volume = backup_volume
              /\ volume_updater.n = 1


OneNowPlaying == Cardinality(now_playing) <= 1

\* A drag moved the row of NowPlaying: its pair was replaced by one pair.
NowPlayingMoved ==
    /\ Ran("swap_track_index")
    /\ last.pre.now_playing # {}
    /\ now_playing # last.pre.now_playing
    /\ Cardinality(now_playing) = 1


\* C34: in every state 0 <= elapsed <= duration, the duration being that of
\* the track of NowPlaying when there is one, under any interleaving of
\* progress ticks, seeks, changes of track and watchdog runs.
ElapsedWithinDuration ==
    /\ 0 <= track_progress
    /\ track_progress <= track_duration
    /\ now_playing # {} => track_duration = Duration(get_now_playing(St).path)

\* A click near the right end of the bar moved elapsed from 1 to the last
\* second of a track of 3 seconds.
SoughtToLastSecond ==
    /\ Ran("set_track_position")
    /\ last.pre.track_progress = 1
    /\ track_duration = 3
    /\ track_progress = 2


\* C35: whenever the Player plays and NowPlaying is present a callback of
\* the progress clock is pending, and when it runs before the end of the
\* track it adds 1 to elapsed; this after pause and resume, after another
\* track was selected, after reorders, shuffles and watchdog runs.
ClockPendingWhilePlaying ==
    is_playing /\ now_playing # {}
        => /\ updater.n + repeater.n >= 1
           /\ updater.n > 0 /\ track_progress < track_duration
                  => update_track_progress([ St EXCEPT !.updater = Fired(@) ]).track_progress
                         = track_progress + 1
           /\ repeater.n > 0 /\ track_progress < track_duration
                  => update_track_progress([ St EXCEPT !.repeater = Fired(@) ]).track_progress
                         = track_progress + 1

\* Playback was resumed while the idle poll was pending.
ResumedUnderIdlePoll ==
    /\ Ran("toggle_playback")
    /\ ~ last.pre.is_playing
    /\ last.pre.now_playing # {}
    /\ is_playing
    /\ repeater.n = 1
    /\ track_progress < track_duration


\* The handler that ran last is the progress clock, the Player plays and
\* the repeat mode is mode: held for ever, the user acts no more.
ClockAlone(mode) == Ticked /\ is_playing /\ repeat = mode

\* C36: on a playlist that does not change, once the user acts no more and
\* the Player plays: with repeat OFF the clock moves NowPlaying from each
\* index to the next one and from the last index to absent, and NowPlaying
\* is absent in the end; with repeat ALL the clock never leaves NowPlaying
\* absent and every index is NowPlaying again and again.
PlaysThrough ==
    /\ [](Ticked /\ last.pre.now_playing # {} /\ now_playing # last.pre.now_playing
              => LET i == get_now_playing(last.pre).index
                 IN  /\ last.pre.repeat = "OFF"
                            => IF i = Len(playlist) - 1 THEN now_playing = {}
                                                        ELSE NowPlayingAt(St, i + 1)
                     /\ last.pre.repeat = "ALL"
                            => NowPlayingAt(St, (i + 1) % Len(playlist)))
    /\ <>[]ClockAlone("OFF") => <>[](now_playing = {})
    /\ \A i \in 0 .. (NumFiles - 1) :
           <>[]ClockAlone("ALL") => []<>(i < Len(playlist) => NowPlayingAt(St, i))

\* Under repeat OFF the clock found the last of two tracks complete.
PlayedToTheEnd ==
    /\ Ran("update_track_progress")
    /\ last.pre.repeat = "OFF"
    /\ Len(playlist) = 2
    /\ NowPlayingAt(last.pre, 1)
    /\ now_playing = {}


\* The paths of playlist d in the order of its entries.
Order(d) == [ i \in 1 .. Len(d) |-> d[i].path ]

\* C37: a step of play (from a row, the play button, next or previous),
\* toggle_playback, next, previous, restart, seek, a volume control, mute or
\* the repeat button leaves the playlist with the same tracks in the same
\* order.
ControlsKeepPlaylist ==
    [][ last'.op \in Controls => Order(playlist') = Order(playlist) ]_vars

\* next() changed the track on a playlist of two and the re-render ran.
NextRerendered ==
    /\ Ran("next")
    /\ Len(playlist) = 2
    /\ last.pre.now_playing # {} /\ now_playing # {}
    /\ get_now_playing(St).index # get_now_playing(last.pre).index
    /\ Order(playlist) = Order(last.pre.playlist)

=============================================================================
